---- MODULE Spec2Model ----
(***************************************************************************)
(* Model of the two Aircall -> Slack report scripts:                       *)
(*   src/aircall-slack-leaderboard.py   (script = "leaderboard")           *)
(*   src/aircall_sdr_stats.py           (script = "sdr_stats")             *)
(*                                                                         *)
(* main() is modelled as a state machine whose steps are: one request to   *)
(* the record source (Fetch / FetchFails), one iteration of the per-record *)
(* loop (ProcessCall), the test that ends a page (EndPage) and the rest of *)
(* main after the loop (Report: sort, decorations, rendering, delivery).   *)
(*                                                                         *)
(* JSON values that the code converts or tests for truthiness are kept as  *)
(* tagged values [kind, val]:                                              *)
(*   none    None / absent key          int     a JSON integer val         *)
(*   numstr  the decimal string of val  badstr  a non-numeric string       *)
(*   empty   the empty string                                              *)
(* Time is counted in whole ticks (seconds); the roster is abbreviated to  *)
(* its first three agents plus the exempt one.                             *)
(*                                                                         *)
(* Specifications:                                                         *)
(*   Spec        one run of main over a bounded sequence of records        *)
(*   SpecRerun   main run twice over the same records and clock reading    *)
(*   SpecReport  the end of main and coaching_line, from any final stats   *)
(*   SpecTalk    talk_seconds applied to one call                          *)
(***************************************************************************)
EXTENDS Integers, Sequences, FiniteSets, TLC

VARIABLES
    script,          \* which of the two scripts runs
    start_utc,       \* main: start_utc  (windowStartAbsolute)
    end_utc,         \* main: end_utc    (windowEndAbsolute)
    source,          \* the record source's records for the query, in order
    pos,             \* number of records of source handed out in pages so far
    idx,             \* number of records whose loop iteration has completed
    page,            \* main: page
    page_len,        \* len(calls) of the page fetched last
    next_page_link,  \* meta.next_page_link of the page being processed
    requests,        \* page numbers passed to fetch_calls, in call order
    stats,           \* main: stats
    pc,              \* position in main
    err,             \* the exception that ended main, or "none"
    leaderboard,     \* main: leaderboard (agent ids)
    sad_face_id,     \* main: sad_face_id, <<>> for None, <<id>> otherwise
    lines,           \* main: lines (one record per entry line)
    sink,            \* texts handed to post_to_slack, in call order
    run,             \* how many times main has been started
    first_run,       \* outcome of the first run once a second one was started
    call_obj,        \* argument of a stand-alone talk_seconds application
    talk_result,     \* its result, <<>> before the application
    coach_text       \* result of a stand-alone coaching_line application

vars == <<script, start_utc, end_utc, source, pos, idx, page, page_len,
          next_page_link,
          requests, stats, pc, err, leaderboard, sad_face_id, lines, sink,
          run, first_run, call_obj, talk_result, coach_text>>

----------------------------------------------------------------------------
(* Bounds of the model *)

MaxRecords == 2      \* longest record sequence the source holds
DayLen == 4          \* ticks per local day
TzOffset == 1        \* ticks the local zone is ahead of UTC
MaxNow == 11         \* latest clock reading

----------------------------------------------------------------------------
(* Python values *)

PyNone == [kind |-> "none", val |-> 0]
PyInt(n) == [kind |-> "int", val |-> n]
PyNumStr(n) == [kind |-> "numstr", val |-> n]
PyBadStr == [kind |-> "badstr", val |-> 0]
PyEmptyStr == [kind |-> "empty", val |-> 0]

\* bool(x)
Truthy(x) ==
    CASE x.kind = "none" -> FALSE
      [] x.kind = "int" -> x.val # 0
      [] x.kind = "empty" -> FALSE
      [] OTHER -> TRUE

\* the exception int(x) raises, "none" when it returns
IntError(x) ==
    CASE x.kind = "none" -> "TypeError"
      [] x.kind \in {"badstr", "empty"} -> "ValueError"
      [] OTHER -> "none"

\* int(x) where it returns
IntOf(x) == x.val

Max(a, b) == IF a >= b THEN a ELSE b

Range(s) == {s[i] : i \in 1..Len(s)}

----------------------------------------------------------------------------
(* Rosters *)

SDRS_LEADERBOARD ==
    << [id |-> 1811979, name |-> "Jeremy"],
       [id |-> 1731824, name |-> "Dale"],
       [id |-> 1731637, name |-> "Ryan"],
       [id |-> 1731823, name |-> "Jake (UK)"] >>

SDRS_STATS ==
    << [id |-> 1811979, name |-> "Jeremy"],
       [id |-> 1731824, name |-> "Dale"],
       [id |-> 1731637, name |-> "Ryan"] >>

SAD_FACE_EXEMPT_IDS == {1731823}

SDRS(s) == IF s = "leaderboard" THEN SDRS_LEADERBOARD ELSE SDRS_STATS

SDR_IDS(s) == {SDRS(s)[i].id : i \in 1..Len(SDRS(s))}

SDR_NAME(s, sid) == (CHOOSE u \in Range(SDRS(s)) : u.id = sid).name

RosterIds(s) == [i \in 1..Len(SDRS(s)) |-> SDRS(s)[i].id]

\* an Aircall user that is on no roster
OtherUser == PyInt(1700000)

----------------------------------------------------------------------------
(* talk_seconds *)

TalkSeconds(c) ==
    IF ~Truthy(c.answered_at) \/ ~Truthy(c.ended_at) THEN 0
    ELSE IF IntError(c.answered_at) # "none" \/ IntError(c.ended_at) # "none" THEN 0
    ELSE Max(0, IntOf(c.ended_at) - IntOf(c.answered_at))

----------------------------------------------------------------------------
(* One iteration of the per-record loop *)

ZeroStats(s) ==
    [sid \in SDR_IDS(s) |->
        [out_total |-> 0, in_total |-> 0, total_calls |-> 0, talk_s_total |-> 0]]

\* variant: both boundary instants fall outside the window
OutsideWindow_exclusive(t, lo, hi) == t <= lo \/ t >= hi

\* started_dt < start_utc or started_dt > end_utc
OutsideWindow(t, lo, hi) == t < lo \/ t > hi

\* uid = (c.get("user") or {}).get("id")
CallUid(c) == c.user

NotInRoster(s, uid) == ~(uid.kind = "int" /\ uid.val \in SDR_IDS(s))

\* the exception the iteration for c raises, "none" when it completes
CallError(c) ==
    IF ~Truthy(c.started_at) THEN "none" ELSE IntError(c.started_at)

\* the iteration reaches one of its three `continue` statements
Skipped(s, c, lo, hi) ==
    \/ ~Truthy(c.started_at)
    \/ OutsideWindow(IntOf(c.started_at), lo, hi)
    \/ NotInRoster(s, CallUid(c))

\* the counter updates of an iteration that reaches none of them
Accrue(s, st, c) ==
    LET uid == CallUid(c).val
        old == st[uid]
    IN [st EXCEPT ![uid] =
          [out_total |-> old.out_total + (IF c.direction = "outbound" THEN 1 ELSE 0),
           in_total |-> old.in_total + (IF c.direction = "inbound" THEN 1 ELSE 0),
           total_calls |-> old.total_calls + (IF s = "sdr_stats" THEN 1 ELSE 0),
           talk_s_total |-> old.talk_s_total + TalkSeconds(c)]]

\* stats after the iteration for c (c raises nothing)
LoopBody(s, st, c, lo, hi) ==
    IF Skipped(s, c, lo, hi) THEN st ELSE Accrue(s, st, c)

----------------------------------------------------------------------------
(* Ranking and rendering *)

RECURSIVE InsertDesc(_, _, _)
\* x goes behind every element whose key is at least its own
InsertDesc(sorted, x, key) ==
    IF sorted = <<>> THEN <<x>>
    ELSE IF key[Head(sorted)] >= key[x]
         THEN <<Head(sorted)>> \o InsertDesc(Tail(sorted), x, key)
         ELSE <<x>> \o sorted

RECURSIVE SortInto(_, _, _)
SortInto(acc, rest, key) ==
    IF rest = <<>> THEN acc
    ELSE SortInto(InsertDesc(acc, Head(rest), key), Tail(rest), key)

\* sorted(items, key=..., reverse=True): descending, equal keys keep the
\* order they have in items
SortedDesc(items, key) == SortInto(<<>>, items, key)

TalkKey(st) == [sid \in DOMAIN st |-> st[sid].talk_s_total]

\* the orders in which iterating a Python set may yield its elements
SetOrders(S) ==
    {o \in [1..Cardinality(S) -> S] : \A i, j \in DOMAIN o : i # j => o[i] # o[j]}

\* the iterables main may hand to sorted()
SortInputs(s) == IF s = "leaderboard" THEN {RosterIds(s)} ELSE SetOrders(SDR_IDS(s))

\* eligible = [u for u in leaderboard if u["id"] not in SAD_FACE_EXEMPT_IDS]
SadEligible(lb) == SelectSeq(lb, LAMBDA sid : sid \notin SAD_FACE_EXEMPT_IDS)

\* variant: the last place gets the sad face, exempt or not
SadFaceId_last_place(s, lb) ==
    IF s = "leaderboard" /\ lb # <<>> THEN <<lb[Len(lb)]>> ELSE <<>>

\* sad_face_id; the sdr_stats script has no such decoration
SadFaceId(s, lb) ==
    IF s = "leaderboard" /\ SadEligible(lb) # <<>>
    THEN <<SadEligible(lb)[Len(SadEligible(lb))]>>
    ELSE <<>>

Medal(i) == IF i <= 3 THEN <<i>> ELSE <<>>

\* the entry lines of the report, one record per line
RenderLines(s, lb, st, sad) ==
    [i \in 1..Len(lb) |->
        [sid |-> lb[i],
         name |-> SDR_NAME(s, lb[i]),
         medal |-> Medal(i),
         talk_m |-> st[lb[i]].talk_s_total \div 60,
         out_total |-> st[lb[i]].out_total,
         in_total |-> st[lb[i]].in_total,
         total_calls |-> st[lb[i]].total_calls,
         bold |-> (s = "leaderboard" /\ i <= 3),
         sad |-> (s = "leaderboard" /\ sad = <<lb[i]>>)]]

----------------------------------------------------------------------------
(* Commentary helpers *)

\* pick_top_by_talk
PickTopByTalk(s, lb, st) ==
    [name |-> SDR_NAME(s, lb[1]), mins |-> st[lb[1]].talk_s_total \div 60]

\* first element of seq with the largest key
FirstMax(seq, key) ==
    seq[CHOOSE i \in 1..Len(seq) :
          /\ \A j \in 1..Len(seq) : key[seq[j]] <= key[seq[i]]
          /\ \A j \in 1..(i - 1) : key[seq[j]] < key[seq[i]]]

\* first element of seq with the smallest key
FirstMin(seq, key) ==
    seq[CHOOSE i \in 1..Len(seq) :
          /\ \A j \in 1..Len(seq) : key[seq[j]] >= key[seq[i]]
          /\ \A j \in 1..(i - 1) : key[seq[j]] > key[seq[i]]]

\* pick_top_by_outbound
PickTopByOutbound(s, lb, st) ==
    LET top == FirstMax(lb, [sid \in DOMAIN st |-> st[sid].out_total])
    IN [name |-> SDR_NAME(s, top), dials |-> st[top].out_total]

\* variant: agents without outbound calls stay eligible
LowEligible_any_dials(lb, st, exempt_ids) ==
    SelectSeq(lb, LAMBDA sid : sid \notin exempt_ids)

\* eligible of pick_lowest_with_dials_gt_zero
LowEligible(lb, st, exempt_ids) ==
    SelectSeq(lb, LAMBDA sid : sid \notin exempt_ids /\ st[sid].out_total > 0)

\* pick_lowest_with_dials_gt_zero: <<>> for None, else <<[name, mins]>>
PickLowestWithDialsGtZero(s, lb, st, exempt_ids) ==
    LET eligible == LowEligible(lb, st, exempt_ids)
    IN IF eligible = <<>> THEN <<>>
       ELSE LET low == FirstMin(eligible, TalkKey(st))
            IN << [name |-> SDR_NAME(s, low), mins |-> st[low].talk_s_total \div 60] >>

----------------------------------------------------------------------------
(* The clock and the record source *)

\* start_utc for the clock reading now: local midnight, as a UTC instant
StartOfLocalDay(now) == ((now + TzOffset) \div DayLen) * DayLen - TzOffset

Nows == {MaxNow - 2, MaxNow}

Call(started, user, direction, answered, ended) ==
    [started_at |-> started, user |-> user, direction |-> direction,
     answered_at |-> answered, ended_at |-> ended]

Jeremy == PyInt(SDRS_LEADERBOARD[1].id)

Dale == PyInt(SDRS_LEADERBOARD[2].id)

JakeUK == PyInt(SDRS_LEADERBOARD[Len(SDRS_LEADERBOARD)].id)

\* answered in-window calls: outbound ones of three agents (one of them on
\* the leaderboard roster only) and an inbound one
AnsweredCalls(lo) ==
    {Call(PyInt(lo), Jeremy, "outbound", PyInt(lo), PyInt(lo + 60)),
     Call(PyInt(lo), Dale, "outbound", PyInt(lo), PyInt(lo + 120)),
     Call(PyInt(lo), JakeUK, "outbound", PyInt(lo), PyInt(lo + 60)),
     Call(PyInt(lo), Jeremy, "inbound", PyInt(lo), PyInt(lo + 60))}

\* calls that differ from an answered call of Jeremy in the start instant,
\* the agent, the direction or the answered/ended instants, and an
\* unanswered inbound call of Dale from before the window
OddCalls(lo, hi) ==
    {Call(st, Jeremy, "outbound", PyInt(lo), PyInt(lo + 60)) :
        st \in {PyNone, PyBadStr, PyInt(hi), PyInt(hi + 1), PyNumStr(lo)}}
    \cup {Call(PyInt(lo - 1), Dale, "inbound", PyNone, PyNone)}
    \cup {Call(PyInt(lo), u, "outbound", PyInt(lo), PyInt(lo + 60)) :
        u \in {PyNone, OtherUser}}
    \cup {Call(PyInt(lo), Jeremy, "internal", PyInt(lo), PyInt(lo + 60))}
    \cup {Call(PyInt(lo), Jeremy, "outbound", a, PyInt(lo + 60)) : a \in {PyNone, PyBadStr}}
    \cup {Call(PyInt(lo), Jeremy, "outbound", PyInt(lo + 60), PyInt(lo))}

CallUniverse(lo, hi) == AnsweredCalls(lo) \cup OddCalls(lo, hi)

SeqsUpTo(S, n) == UNION {[1..k -> S] : k \in 0..n}

NoCall == Call(PyNone, PyNone, "none", PyNone, PyNone)

----------------------------------------------------------------------------
(* main *)

\* lines 70-82: the window, zeroed stats, page = 1
Init ==
    /\ script \in {"leaderboard", "sdr_stats"}
    /\ \E now \in Nows :
         /\ end_utc = now
         /\ start_utc = StartOfLocalDay(now)
    /\ source \in SeqsUpTo(CallUniverse(start_utc, end_utc), MaxRecords)
    /\ pos = 0
    /\ idx = 0
    /\ page = 1
    /\ page_len = 0
    /\ next_page_link = FALSE
    /\ requests = <<>>
    /\ stats = ZeroStats(script)
    /\ pc = "fetch"
    /\ err = "none"
    /\ leaderboard = <<>>
    /\ sad_face_id = <<>>
    /\ lines = <<>>
    /\ sink = <<>>
    /\ run = 1
    /\ first_run = <<>>
    /\ call_obj = NoCall
    /\ talk_result = <<>>
    /\ coach_text = <<>>

\* variant: the next_page_link test comes before the records are read
AfterFetch_meta_first(k, link) == IF k = 0 \/ ~link THEN "report" ELSE "calls"

\* where main goes with a page of k records: `if not calls: break`
AfterFetch(k, link) == IF k = 0 THEN "report" ELSE "calls"

\* variant: a failed fetch is taken for the end of the pages
AfterFetchError_swallowed == "report"

\* where main goes when fetch_calls raises: nothing catches it
AfterFetchError == "aborted"

\* variant: the page number is not advanced
NextPage_same(p) == p

\* page += 1
NextPage(p) == p + 1

\* fetch_calls returns a page: the next k records and the page's
\* next_page_link; `if not calls: break`
Fetch ==
    /\ pc = "fetch"
    /\ requests' = Append(requests, page)
    /\ \E k \in 0..(Len(source) - pos), link \in BOOLEAN :
         /\ pos' = pos + k
         /\ page_len' = k
         /\ next_page_link' = link
         /\ pc' = AfterFetch(k, link)
    /\ UNCHANGED <<script, start_utc, end_utc, source, idx, page, stats, err,
                   leaderboard, sad_face_id, lines, sink, run, first_run,
                   call_obj, talk_result, coach_text>>

\* fetch_calls raises (transport error, raise_for_status, r.json())
FetchFails ==
    /\ pc = "fetch"
    /\ requests' = Append(requests, page)
    /\ pc' = AfterFetchError
    /\ err' = "SourceError"
    /\ UNCHANGED <<script, start_utc, end_utc, source, pos, idx, page, page_len,
                   next_page_link, stats, leaderboard, sad_face_id, lines, sink,
                   run, first_run, call_obj, talk_result, coach_text>>

\* one iteration of `for c in calls`
ProcessCall ==
    /\ pc = "calls"
    /\ LET c == source[idx + 1] IN
         IF CallError(c) # "none"
         THEN /\ pc' = "aborted"
              /\ err' = CallError(c)
              /\ UNCHANGED <<idx, stats>>
         ELSE /\ stats' = LoopBody(script, stats, c, start_utc, end_utc)
              /\ idx' = idx + 1
              /\ pc' = IF idx + 1 = pos THEN "endpage" ELSE "calls"
              /\ err' = err
    /\ UNCHANGED <<script, start_utc, end_utc, source, pos, page, page_len,
                   next_page_link, requests, leaderboard, sad_face_id, lines, sink, run,
                   first_run, call_obj, talk_result, coach_text>>

\* after the for loop: `if not meta.get("next_page_link"): break; page += 1`
EndPage ==
    /\ pc = "endpage"
    /\ IF next_page_link
       THEN pc' = "fetch" /\ page' = NextPage(page)
       ELSE pc' = "report" /\ page' = page
    /\ UNCHANGED <<script, start_utc, end_utc, source, pos, idx, page_len,
                   next_page_link,
                   requests, stats, err, leaderboard, sad_face_id, lines, sink,
                   run, first_run, call_obj, talk_result, coach_text>>

\* the rest of main: sort, sad face, render, post_to_slack (which may raise
\* after the request was made)
Report ==
    /\ pc = "report"
    /\ \E items \in SortInputs(script), delivered \in BOOLEAN :
         LET lb == SortedDesc(items, TalkKey(stats))
             sad == SadFaceId(script, lb)
             text == RenderLines(script, lb, stats, sad)
         IN /\ leaderboard' = lb
            /\ sad_face_id' = sad
            /\ lines' = text
            /\ sink' = Append(sink, text)
            /\ pc' = IF delivered THEN "done" ELSE "aborted"
            /\ err' = IF delivered THEN err ELSE "DeliveryError"
    /\ UNCHANGED <<script, start_utc, end_utc, source, pos, idx, page, page_len,
                   next_page_link, requests, stats, run, first_run, call_obj,
                   talk_result, coach_text>>

Next == Fetch \/ FetchFails \/ ProcessCall \/ EndPage \/ Report

Spec == Init /\ [][Next]_vars

----------------------------------------------------------------------------
(* main started a second time on the same clock reading and records *)

MaxRerunRecords == 2

\* the records of the two-run specification: answered calls of two agents,
\* a call outside the window and a call of nobody on the roster
RerunCalls(lo, hi) ==
    {Call(PyInt(lo), Jeremy, "outbound", PyInt(lo), PyInt(lo + 60)),
     Call(PyInt(lo), Dale, "outbound", PyInt(lo), PyInt(lo + 120)),
     Call(PyInt(hi + 1), Jeremy, "outbound", PyInt(lo), PyInt(lo + 60)),
     Call(PyInt(lo), PyNone, "inbound", PyInt(lo), PyInt(lo + 60))}

InitRerun ==
    /\ script \in {"leaderboard", "sdr_stats"}
    /\ \E now \in Nows :
         /\ end_utc = now
         /\ start_utc = StartOfLocalDay(now)
    /\ source \in SeqsUpTo(RerunCalls(start_utc, end_utc), MaxRerunRecords)
    /\ pos = 0
    /\ idx = 0
    /\ page = 1
    /\ page_len = 0
    /\ next_page_link = FALSE
    /\ requests = <<>>
    /\ stats = ZeroStats(script)
    /\ pc = "fetch"
    /\ err = "none"
    /\ leaderboard = <<>>
    /\ sad_face_id = <<>>
    /\ lines = <<>>
    /\ sink = <<>>
    /\ run = 1
    /\ first_run = <<>>
    /\ call_obj = NoCall
    /\ talk_result = <<>>
    /\ coach_text = <<>>

\* lines 77-80: every run builds its stats anew
FreshStats(s, st) == ZeroStats(s)

\* the process is started again; what the first run computed is kept aside
Rerun ==
    /\ pc = "done"
    /\ run = 1
    /\ run' = 2
    /\ first_run' = << [stats |-> stats, delivered |-> pos, pages |-> Len(requests)] >>
    /\ stats' = FreshStats(script, stats)
    /\ pos' = 0
    /\ idx' = 0
    /\ page' = 1
    /\ page_len' = 0
    /\ next_page_link' = FALSE
    /\ requests' = <<>>
    /\ pc' = "fetch"
    /\ leaderboard' = <<>>
    /\ sad_face_id' = <<>>
    /\ lines' = <<>>
    /\ UNCHANGED <<script, start_utc, end_utc, source, err, sink, call_obj,
                   talk_result, coach_text>>

NextRerun == Fetch \/ FetchFails \/ ProcessCall \/ EndPage \/ Report \/ Rerun

SpecRerun == InitRerun /\ [][NextRerun]_vars

----------------------------------------------------------------------------
(* talk_seconds on its own *)

MaxInstant == 3

\* values the answered_at and ended_at keys may hold
InstantValues ==
    {PyNone, PyEmptyStr, PyBadStr}
    \cup {PyInt(n) : n \in 0..MaxInstant}
    \cup {PyNumStr(n) : n \in 0..MaxInstant}

InitTalk ==
    /\ script = "leaderboard"
    /\ start_utc = 0
    /\ end_utc = 0
    /\ source = <<>>
    /\ pos = 0
    /\ idx = 0
    /\ page = 1
    /\ page_len = 0
    /\ next_page_link = FALSE
    /\ requests = <<>>
    /\ stats = ZeroStats(script)
    /\ pc = "talk"
    /\ err = "none"
    /\ leaderboard = <<>>
    /\ sad_face_id = <<>>
    /\ lines = <<>>
    /\ sink = <<>>
    /\ run = 1
    /\ first_run = <<>>
    /\ call_obj \in {Call(PyInt(1), Jeremy, d, a, e) :
                        d \in {"outbound"}, a \in InstantValues, e \in InstantValues}
    /\ talk_result = <<>>
    /\ coach_text = <<>>

ApplyTalkSeconds ==
    /\ pc = "talk"
    /\ talk_result' = <<TalkSeconds(call_obj)>>
    /\ pc' = "talk_done"
    /\ UNCHANGED <<script, start_utc, end_utc, source, pos, idx, page, page_len,
                   next_page_link, requests, stats, err, leaderboard,
                   sad_face_id, lines, sink, run, first_run, call_obj,
                   coach_text>>

SpecTalk == InitTalk /\ [][ApplyTalkSeconds]_vars

----------------------------------------------------------------------------
(* coaching_line *)

NumTemplates == 9

\* a rendered commentary line: the template, the branch taken and the values
\* substituted (each <<>> when the line does not use it)
Text(t, variant, top_name, top_mins, dials_name, dials, low_name) ==
    [template |-> t, variant |-> variant, top_name |-> top_name,
     top_mins |-> top_mins, dials_name |-> dials_name, dials |-> dials,
     low_name |-> low_name]

\* what an f-string prints for low_name
FormatName(low_name) == IF low_name = <<>> THEN "None" ELSE low_name[1]

\* variant: the nudge is rendered whether or not there is a target
NudgeLine_unguarded(low_name) ==
    Text(8, "nudge", <<>>, <<>>, <<>>, <<>>, <<FormatName(low_name)>>)

\* the eighth template: the nudge `if low_name else` the attention-free line
NudgeLine(low_name) ==
    IF low_name # <<>>
    THEN Text(8, "nudge", <<>>, <<>>, <<>>, <<>>, <<FormatName(low_name)>>)
    ELSE Text(8, "fallback", <<>>, <<>>, <<>>, <<>>, <<>>)

\* templates[t - 1]()
Template(t, top, top_dials, low_name) ==
    CASE t \in {1, 2, 3, 4, 6, 7} ->
           Text(t, "only", <<top.name>>, <<top.mins>>, <<>>, <<>>, <<>>)
      [] t = 5 ->
           Text(t, "only", <<>>, <<>>, <<top_dials.name>>, <<top_dials.dials>>, <<>>)
      [] t = 8 -> NudgeLine(low_name)
      [] t = 9 ->
           Text(t, IF low_name # <<>> THEN "on_the_board" ELSE "plain",
                <<top.name>>, <<top.mins>>, <<>>, <<>>, <<>>)

\* coaching_line with random.choice picking template t
CoachingLineText(t, s, lb, st, exempt_ids) ==
    LET top == PickTopByTalk(s, lb, st)
        top_dials == PickTopByOutbound(s, lb, st)
        low == PickLowestWithDialsGtZero(s, lb, st, exempt_ids)
        low_name == IF low # <<>> THEN <<low[1].name>> ELSE <<>>
    IN Template(t, top, top_dials, low_name)

----------------------------------------------------------------------------
(* The end of main, and coaching_line, on every set of final stats *)

MaxDials == 1        \* largest outbound count drawn
MaxTalkUnits == 2    \* largest talk total drawn, in half minutes

FinalStats(s) ==
    [SDR_IDS(s) ->
        [out_total : 0..MaxDials, in_total : {0}, total_calls : {0},
         talk_s_total : {30 * k : k \in 0..MaxTalkUnits}]]

\* main when its paging loop has ended, with any final stats; how the pages
\* led to them is left out
InitReport ==
    /\ script \in {"leaderboard", "sdr_stats"}
    /\ start_utc = StartOfLocalDay(MaxNow)
    /\ end_utc = MaxNow
    /\ source = <<>>
    /\ pos = 0
    /\ idx = 0
    /\ page = 1
    /\ page_len = 0
    /\ next_page_link = FALSE
    /\ requests = <<1>>
    /\ stats \in FinalStats(script)
    /\ pc = "report"
    /\ err = "none"
    /\ leaderboard = <<>>
    /\ sad_face_id = <<>>
    /\ lines = <<>>
    /\ sink = <<>>
    /\ run = 1
    /\ first_run = <<>>
    /\ call_obj = NoCall
    /\ talk_result = <<>>
    /\ coach_text = <<>>

\* coaching_line(leaderboard, stats, SAD_FACE_EXEMPT_IDS) on main's leaderboard
CoachingLine ==
    /\ pc = "done"
    /\ script = "leaderboard"
    /\ \E t \in 1..NumTemplates :
         coach_text' = <<CoachingLineText(t, script, leaderboard, stats,
                                          SAD_FACE_EXEMPT_IDS)>>
    /\ pc' = "coached"
    /\ UNCHANGED <<script, start_utc, end_utc, source, pos, idx, page, page_len,
                   next_page_link, requests, stats, err, leaderboard,
                   sad_face_id, lines, sink, run, first_run, call_obj,
                   talk_result>>

NextReport == Report \/ CoachingLine

SpecReport == InitReport /\ [][NextReport]_vars

----------------------------------------------------------------------------
(* Properties: the per-record loop *)

\* the start instant of c is present and int() accepts it
NumericStart(c) == Truthy(c.started_at) /\ IntError(c.started_at) = "none"

OnRoster(c) == c.user.kind = "int" /\ c.user.val \in SDR_IDS(script)

Bump(cond) == IF cond THEN 1 ELSE 0

\* st2 is st with call c counted for its agent and nothing else changed
CountedOnce(st, st2, c) ==
    LET u == c.user.val IN
    /\ st2[u].out_total = st[u].out_total + Bump(c.direction = "outbound")
    /\ st2[u].in_total = st[u].in_total + Bump(c.direction = "inbound")
    /\ st2[u].total_calls = st[u].total_calls + Bump(script = "sdr_stats")
    /\ st2[u].talk_s_total = st[u].talk_s_total + TalkSeconds(c)
    /\ \A o \in SDR_IDS(script) \ {u} : st2[o] = st[o]

\* C1: an iteration of the record loop for a call whose start instant lies
\* strictly before start_utc or strictly after end_utc leaves every counter
\* of every agent as it was, whatever the call's agent, direction and
\* answered/ended values; an iteration for a call of a roster agent that
\* starts exactly at start_utc or exactly at end_utc counts the call.
C1_WindowFilter ==
    [][pc = "calls" =>
         LET c == source[idx + 1] IN
         NumericStart(c) =>
           /\ (IntOf(c.started_at) < start_utc \/ IntOf(c.started_at) > end_utc)
                 => stats' = stats
           /\ (IntOf(c.started_at) \in {start_utc, end_utc} /\ OnRoster(c))
                 => /\ CountedOnce(stats, stats', c)
                    /\ pc' # "aborted"]_vars

\* a run that skipped a call starting after end_utc and counted a call
\* starting exactly at end_utc, the window being longer than one instant
C1_Witness ==
    /\ pc = "done"
    /\ start_utc < end_utc
    /\ \E i, j \in 1..idx :
         /\ NumericStart(source[i]) /\ IntOf(source[i].started_at) > end_utc
         /\ NumericStart(source[j]) /\ IntOf(source[j].started_at) = end_utc
         /\ OnRoster(source[j])
         /\ stats[source[j].user.val].out_total = 1

\* the answered or the ended instant of c is present but not numeric
BadTalkInstants(c) ==
    \/ (Truthy(c.answered_at) /\ IntError(c.answered_at) # "none")
    \/ (Truthy(c.ended_at) /\ IntError(c.ended_at) # "none")

\* c is malformed in one of the ways the claim lists
Malformed(c) ==
    \/ ~Truthy(c.started_at)
    \/ IntError(c.started_at) # "none"
    \/ ~OnRoster(c)
    \/ BadTalkInstants(c)

\* C6: a malformed record (start instant missing or not numeric, agent
\* missing or unknown, answered/ended not numeric) never ends the run: the
\* run is never found aborted by an exception raised at such a record.
C6_MalformedRecordNeverFatal ==
    ~(/\ pc = "aborted"
      /\ err \notin {"none", "SourceError", "DeliveryError"}
      /\ idx < pos
      /\ Malformed(source[idx + 1]))

----------------------------------------------------------------------------
(* Properties: paging and delivery *)

\* the page fetched last showed the stop condition
StopSeen == page_len = 0 \/ ~next_page_link

\* C7: the source is asked for pages 1, 2, 3, ... in this order, each once;
\* a further page is asked for only when the page before was not empty,
\* carried a next-page link and had all its records processed; and when the
\* loop is left, the last page was empty or carried no link and every record
\* handed out has been processed.
C7_Pagination ==
    [][/\ requests' # requests =>
            /\ requests' = Append(requests, Len(requests) + 1)
            /\ requests # <<>> => (page_len > 0 /\ next_page_link /\ idx = pos)
       /\ (pc # "report" /\ pc' = "report") => (StopSeen' /\ idx' = pos')
       /\ pc \in {"report", "done", "aborted"} => requests' = requests]_vars

\* the loop was left after a second, non-empty page without a link
C7_Witness ==
    /\ pc = "report"
    /\ requests = <<1, 2>>
    /\ page_len > 0
    /\ ~next_page_link
    /\ idx = Len(source)

\* C8: a failed page fetch aborts the run and leaves the sink uncalled; the
\* sink is called at most once in a run, and only when the paging loop has
\* ended on its stop condition with every fetched record processed.
C8_NoPartialReport ==
    /\ Len(sink) <= 1
    /\ err = "SourceError" => (pc = "aborted" /\ sink = <<>>)
    /\ sink # <<>> =>
         /\ pc \in {"done", "aborted"}
         /\ err \in {"none", "DeliveryError"}
         /\ StopSeen
         /\ idx = pos

\* the fetch of a second page failed after the first page had been counted
C8_Witness ==
    /\ pc = "aborted"
    /\ err = "SourceError"
    /\ requests = <<1, 2>>
    /\ stats # ZeroStats(script)
    /\ sink = <<>>

\* C9: two runs over the same records and window end with the same stats
\* whenever each was handed all the records, however each run's pages were
\* cut.
C9_SplitIndependent ==
    (/\ run = 2
     /\ pc \in {"report", "done"}
     /\ pos = Len(source)
     /\ first_run[1].delivered = Len(source))
    => stats = first_run[1].stats

\* both runs got all the records, in different numbers of pages, and
\* counted something
C9_Witness ==
    /\ run = 2
    /\ pc = "done"
    /\ Len(source) >= 2
    /\ pos = Len(source)
    /\ first_run[1].delivered = Len(source)
    /\ first_run[1].pages # Len(requests)
    /\ stats # ZeroStats(script)
    /\ stats = first_run[1].stats

----------------------------------------------------------------------------
(* Properties: talk_seconds *)

Missing(x) == x.kind = "none"

NonNumeric(x) == x.kind \in {"badstr", "empty"}

\* C2: talk_seconds returns 0 when the answered or the ended instant is
\* missing or not numeric, and max(0, ended - answered) otherwise; it never
\* returns a negative value.
C2_TalkSeconds ==
    pc = "talk_done" =>
      LET a == call_obj.answered_at
          e == call_obj.ended_at
      IN /\ talk_result[1] >= 0
         /\ talk_result[1] =
              IF Missing(a) \/ Missing(e) \/ NonNumeric(a) \/ NonNumeric(e)
              THEN 0
              ELSE Max(0, IntOf(e) - IntOf(a))

----------------------------------------------------------------------------
(* Properties: ranking, decorations and commentary *)

\* main has built its report
Reported == lines # <<>>

\* place of agent sid in the roster declaration
RosterIndex(sid) == CHOOSE i \in 1..Len(SDRS(script)) : SDRS(script)[i].id = sid

\* place of agent sid in the leaderboard
RankOf(sid) == CHOOSE i \in 1..Len(leaderboard) : leaderboard[i] = sid

Talk(sid) == stats[sid].talk_s_total

\* C3: in both scripts the leaderboard lists every roster agent once, by
\* talk-seconds descending, and agents with equal talk-seconds in the order
\* of the roster declaration.
C3_StableRanking ==
    Reported =>
      /\ Len(leaderboard) = Len(SDRS(script))
      /\ Range(leaderboard) = SDR_IDS(script)
      /\ \A i, j \in 1..Len(leaderboard) :
           i < j =>
             /\ Talk(leaderboard[i]) >= Talk(leaderboard[j])
             /\ Talk(leaderboard[i]) = Talk(leaderboard[j])
                  => RosterIndex(leaderboard[i]) < RosterIndex(leaderboard[j])

\* the non-exempt agents with at least one outbound call
Active == {sid \in SDR_IDS(script) :
             sid \notin SAD_FACE_EXEMPT_IDS /\ stats[sid].out_total > 0}

LowestActive(sid) == sid \in Active /\ \A o \in Active : Talk(sid) <= Talk(o)

\* the result of pick_lowest_with_dials_gt_zero on main's leaderboard
Nudged ==
    PickLowestWithDialsGtZero(script, leaderboard, stats, SAD_FACE_EXEMPT_IDS)

\* C4 as claimed: the line with the sad face belongs to the non-exempt agent
\* with the lowest talk-seconds among those with outbound count > 0, and so
\* does the name the nudge uses; with no such agent nothing is flagged.
C4_AttentionTargetAsClaimed ==
    (Reported /\ script = "leaderboard") =>
      /\ \A i \in DOMAIN lines : lines[i].sad => LowestActive(lines[i].sid)
      /\ Nudged # <<>> =>
           \E sid \in Active : LowestActive(sid) /\ Nudged[1].name = SDR_NAME(script, sid)
      /\ Active = {} => Nudged = <<>>

\* C4 amended: pick_lowest_with_dials_gt_zero names the non-exempt agent with
\* the lowest talk-seconds among those with outbound count > 0 (the best
\* ranked of them on a tie) and nobody when there is none; the sad face goes
\* to the last non-exempt agent of the leaderboard whatever its outbound
\* count, and to no other line.
C4_AttentionTargets ==
    (Reported /\ script = "leaderboard") =>
      /\ Active = {} <=> Nudged = <<>>
      /\ Nudged # <<>> =>
           \E sid \in Active :
             /\ LowestActive(sid)
             /\ \A o \in Active \ {sid} : Talk(o) = Talk(sid) => RankOf(sid) < RankOf(o)
             /\ Nudged[1] = [name |-> SDR_NAME(script, sid), mins |-> Talk(sid) \div 60]
      /\ \A i \in DOMAIN lines :
           lines[i].sad <=>
             /\ lines[i].sid \notin SAD_FACE_EXEMPT_IDS
             /\ \A j \in DOMAIN lines : j > i => lines[j].sid \in SAD_FACE_EXEMPT_IDS

\* the sad face sits on an agent without outbound calls while the nudge
\* names another agent
C4_Witness ==
    /\ Reported
    /\ script = "leaderboard"
    /\ Nudged # <<>>
    /\ \E i \in DOMAIN lines :
         /\ lines[i].sad
         /\ stats[lines[i].sid].out_total = 0
         /\ lines[i].name # Nudged[1].name

ExemptNames == {SDR_NAME("leaderboard", sid) : sid \in SAD_FACE_EXEMPT_IDS}

\* C5: whatever the final stats, no line of an exempt agent carries the sad
\* face, sad_face_id is no exempt id, and pick_lowest_with_dials_gt_zero
\* does not return an exempt agent.
C5_ExemptNeverTarget ==
    (Reported /\ script = "leaderboard") =>
      /\ \A i \in DOMAIN lines : lines[i].sad => lines[i].sid \notin SAD_FACE_EXEMPT_IDS
      /\ \A i \in DOMAIN sad_face_id : sad_face_id[i] \notin SAD_FACE_EXEMPT_IDS
      /\ Nudged # <<>> => Nudged[1].name \notin ExemptNames

\* the exempt agent has outbound calls and strictly the lowest talk-seconds
\* of the roster; another agent has the sad face and the nudge
C5_Witness ==
    /\ Reported
    /\ script = "leaderboard"
    /\ \E x \in SAD_FACE_EXEMPT_IDS :
         /\ stats[x].out_total > 0
         /\ \A o \in SDR_IDS(script) \ {x} : Talk(x) < Talk(o)
    /\ sad_face_id # <<>>
    /\ Nudged # <<>>

\* the names a commentary line substitutes
NamesIn(text) == Range(text.top_name) \cup Range(text.dials_name) \cup Range(text.low_name)

\* C10: whichever template is drawn, when there is no attention target the
\* commentary names none and prints no "None"; and a commentary that names
\* an attention target names the agent pick_lowest_with_dials_gt_zero
\* returns.
C10_CommentaryTarget ==
    pc = "coached" =>
      LET text == coach_text[1] IN
      /\ Nudged = <<>> => (text.low_name = <<>> /\ "None" \notin NamesIn(text))
      /\ text.low_name # <<>> => (Nudged # <<>> /\ text.low_name = <<Nudged[1].name>>)

\* the nudge template was drawn with no attention target although somebody
\* talked, and the attention-free line came out
C10_Witness ==
    /\ pc = "coached"
    /\ coach_text[1].template = 8
    /\ coach_text[1].variant = "fallback"
    /\ Nudged = <<>>
    /\ \E sid \in SDR_IDS(script) : Talk(sid) > 0

====
